---- MODULE Spec2Model ----
(***************************************************************************)
(* Order / item lifecycle of the racket-stringing backend                  *)
(* (backend/app/crud.py, models.py, main.py).                              *)
(*                                                                         *)
(* The committed database is three tables keyed by primary key.  Text is   *)
(* modelled as sequences of one-character strings so that strip(), upper() *)
(* and replace() are computed, not assumed.  A nullable column is a        *)
(* sequence of length 0 (NULL) or 1.                                       *)
(***************************************************************************)
EXTENDS Integers, Sequences, FiniteSets, TLC

VARIABLES customers, orders, items, last, sess

vars == <<customers, orders, items, last, sess>>

(***************************************************************************)
(* Bounds of the model.                                                    *)
(***************************************************************************)
MaxCustomers == 2
NumSessions == 2

Sessions == 1..NumSessions

(***************************************************************************)
(* Naive datetimes.  DateTimes is the pool of values the wall clock and    *)
(* the callers supply.                                                     *)
(***************************************************************************)
DateTime(y, mo, d, h, mi) ==
    [year |-> y, month |-> mo, day |-> d, hour |-> h, minute |-> mi]

DateTimes == { DateTime(2024, 3, 1, 9, 5), DateTime(2024, 3, 2, 14, 30) }

\* datetime.date(): the calendar day of a datetime
date(dt) == [year |-> dt.year, month |-> dt.month, day |-> dt.day]

Digit == <<"0","1","2","3","4","5","6","7","8","9">>

\* two and four decimal digits, zero padded
Dec2(n) == <<Digit[((n \div 10) % 10) + 1], Digit[(n % 10) + 1]>>
Dec4(n) == Dec2(n \div 100) \o Dec2(n % 100)

\* dt.strftime("%Y-%m-%d %H:%M")
strftime(dt) ==
    Dec4(dt.year) \o <<"-">> \o Dec2(dt.month) \o <<"-">> \o Dec2(dt.day)
        \o <<" ">> \o Dec2(dt.hour) \o <<":">> \o Dec2(dt.minute)

\* a time later on the first day, which only a caller supplies
LateDateTime == DateTime(2024, 3, 1, 16, 40)

\* the formatting, tabulated over the datetimes of the model
Formatted == [dt \in DateTimes \cup {LateDateTime} |-> strftime(dt)]

(***************************************************************************)
(* Text helpers: Python str.strip, str.upper, str.replace.                 *)
(***************************************************************************)
Whitespace == {" ", "\t", "\n"}

Lowers == <<"a","b","c","d","e","f","g","h","i","j","k","l","m",
            "n","o","p","q","r","s","t","u","v","w","x","y","z">>
Uppers == <<"A","B","C","D","E","F","G","H","I","J","K","L","M",
            "N","O","P","Q","R","S","T","U","V","W","X","Y","Z">>

UpperChar(c) ==
    IF \E k \in 1..Len(Lowers) : Lowers[k] = c
    THEN Uppers[CHOOSE k \in 1..Len(Lowers) : Lowers[k] = c]
    ELSE c

Upper(s) == [k \in 1..Len(s) |-> UpperChar(s[k])]

RECURSIVE LStrip(_)
LStrip(s) ==
    IF s # <<>> /\ Head(s) \in Whitespace THEN LStrip(Tail(s)) ELSE s

RECURSIVE RStrip(_)
RStrip(s) ==
    IF s # <<>> /\ s[Len(s)] \in Whitespace
    THEN RStrip(SubSeq(s, 1, Len(s) - 1))
    ELSE s

Strip(s) == RStrip(LStrip(s))

StartsWith(s, p) == Len(s) >= Len(p) /\ SubSeq(s, 1, Len(p)) = p

\* s.replace(old, new): leftmost non-overlapping occurrences, old non-empty
RECURSIVE Replace(_, _, _)
Replace(s, old, new) ==
    IF s = <<>> THEN <<>>
    ELSE IF StartsWith(s, old)
         THEN new \o Replace(SubSeq(s, Len(old) + 1, Len(s)), old, new)
         ELSE <<Head(s)>> \o Replace(Tail(s), old, new)

Pad(s) == <<" ">> \o s \o <<" ">>

\* SQL LIKE: % is any run of characters, _ any one character, and the
\* character after a backslash stands for itself
RECURSIVE like(_, _)
like(text, pattern) ==
    IF pattern = <<>> THEN text = <<>>
    ELSE IF Head(pattern) = "%"
    THEN \/ like(text, Tail(pattern))
         \/ text # <<>> /\ like(Tail(text), pattern)
    ELSE IF Head(pattern) = "\\" /\ Len(pattern) >= 2
    THEN /\ text # <<>> /\ Head(text) = pattern[2]
         /\ like(Tail(text), Tail(Tail(pattern)))
    ELSE /\ text # <<>>
         /\ Head(pattern) = "_" \/ Head(pattern) = Head(text)
         /\ like(Tail(text), Tail(pattern))

\* column.ilike(pattern): LIKE without regard to letter case
ilike(text, pattern) == like(Upper(text), Upper(pattern))

(***************************************************************************)
(* Nullable values.                                                        *)
(***************************************************************************)
None == <<>>
Some(v) == <<v>>

(***************************************************************************)
(* datetime.strptime(text, "%Y-%m-%d").date(): None stands for ValueError. *)
(* The directives match \d\d\d\d, 1[0-2]|0[1-9]|[1-9] and                 *)
(* 3[01]|[12]\d|0[1-9]|[1-9]| [1-9]; the day must exist in the month.      *)
(***************************************************************************)
IsDigits(s) == \A k \in 1..Len(s) : \E n \in 1..10 : Digit[n] = s[k]

DigitVal(c) == (CHOOSE n \in 1..10 : Digit[n] = c) - 1

RECURSIVE Number(_)
Number(s) ==
    IF s = <<>> THEN 0
    ELSE Number(SubSeq(s, 1, Len(s) - 1)) * 10 + DigitVal(s[Len(s)])

DaysInMonth(y, m) ==
    IF m = 2
    THEN IF (y % 4 = 0 /\ y % 100 # 0) \/ y % 400 = 0 THEN 29 ELSE 28
    ELSE IF m \in {4, 6, 9, 11} THEN 30 ELSE 31

strptime_date(text) ==
    LET dashes == { k \in 1..Len(text) : text[k] = "-" }
    IN  IF Cardinality(dashes) # 2 \/ 5 \notin dashes
        THEN None
        ELSE LET k2 == CHOOSE k \in dashes : k # 5
                 ys == SubSeq(text, 1, 4)
                 ms == SubSeq(text, 6, k2 - 1)
                 d0 == SubSeq(text, k2 + 1, Len(text))
                 \* the day directive also takes a space and one digit
                 ds == IF Len(d0) = 2 /\ d0[1] = " " THEN <<d0[2]>> ELSE d0
             IN  IF /\ IsDigits(ys) /\ IsDigits(ms) /\ IsDigits(ds)
                    /\ Len(ms) \in {1, 2} /\ Len(ds) \in {1, 2}
                    /\ Number(ys) >= 1
                    /\ Number(ms) \in 1..12
                    /\ Number(ds) \in 1..DaysInMonth(Number(ys), Number(ms))
                 THEN Some([year |-> Number(ys), month |-> Number(ms),
                            day |-> Number(ds)])
                 ELSE None

\* the directives %H:%M match 2[0-3]|[0-1]\d|\d and [0-5]\d|\d
strptime_time(text) ==
    LET colons == { k \in 1..Len(text) : text[k] = ":" }
    IN  IF Cardinality(colons) # 1 THEN None
        ELSE LET k  == CHOOSE x \in colons : TRUE
                 hs == SubSeq(text, 1, k - 1)
                 ms == SubSeq(text, k + 1, Len(text))
             IN  IF /\ IsDigits(hs) /\ IsDigits(ms)
                    /\ Len(hs) \in {1, 2} /\ Len(ms) \in {1, 2}
                    /\ Number(hs) \in 0..23 /\ Number(ms) \in 0..59
                 THEN Some([hour |-> Number(hs), minute |-> Number(ms)])
                 ELSE None

\* datetime.strptime(text, "%Y-%m-%d %H:%M"): a date, whitespace, a time
strptime(text) ==
    LET cuts == { c \in (1..Len(text)) \X (1..Len(text)) :
                    /\ c[1] + 1 < c[2]
                    /\ \A k \in (c[1] + 1)..(c[2] - 1) : text[k] \in Whitespace
                    /\ strptime_date(SubSeq(text, 1, c[1])) # None
                    /\ strptime_time(SubSeq(text, c[2], Len(text))) # None }
    IN  IF cuts = {} THEN None
        ELSE LET c == CHOOSE x \in cuts : TRUE
                 d == strptime_date(SubSeq(text, 1, c[1]))[1]
                 t == strptime_time(SubSeq(text, c[2], Len(text)))[1]
             IN  Some([year |-> d.year, month |-> d.month, day |-> d.day,
                       hour |-> t.hour, minute |-> t.minute])

(***************************************************************************)
(* models.ItemStatus                                                       *)
(***************************************************************************)
ItemStatus == {"RECEIVED", "WORKING", "DONE", "PICKED_UP"}

\* the member names, as text
ItemStatusName ==
    [ RECEIVED  |-> <<"R","E","C","E","I","V","E","D">>,
      WORKING   |-> <<"W","O","R","K","I","N","G">>,
      DONE      |-> <<"D","O","N","E">>,
      PICKED_UP |-> <<"P","I","C","K","E","D","_","U","P">> ]


(***************************************************************************)
(* Token generator: secrets.token_hex(nbytes).upper().  The random source  *)
(* is restricted to the hex strings of HexPool.                            *)
(***************************************************************************)
TokenBytes == 3
RetryLimit == 10

HexPool == { <<"0","0","a","1","b","2">>,
             <<"5","c","f","f","0","e">> }

token_hex(nbytes) == { h \in HexPool : Len(h) = 2 * nbytes }

_new_token(nbytes) == { Upper(h) : h \in token_hex(nbytes) }

\* the four-state ring RECEIVED -> WORKING -> DONE -> PICKED_UP -> RECEIVED
_cycle_status_ring(st) ==
    IF st = "RECEIVED" THEN "WORKING"
    ELSE IF st = "WORKING" THEN "DONE"
    ELSE IF st = "DONE" THEN "PICKED_UP"
    ELSE "RECEIVED"

_cycle_status(st) ==
    IF st = "RECEIVED" THEN "WORKING"
    ELSE IF st = "WORKING" THEN "DONE"
    ELSE IF st = "DONE" THEN "WORKING"
    ELSE IF st = "PICKED_UP" THEN "WORKING"
    ELSE "WORKING"

EnumPrefix == <<"I","T","E","M","S","T","A","T","U","S",".">>

\* the member named by the text, or "ValueError"
_parse_status(status) ==
    LET s0 == Upper(Strip(status))
        s  == Replace(s0, EnumPrefix, <<>>)
    IN  IF \E m \in ItemStatus : ItemStatusName[m] = s
        THEN CHOOSE m \in ItemStatus : ItemStatusName[m] = s
        ELSE "ValueError"

(***************************************************************************)
(* Inputs the callers may supply.                                          *)
(***************************************************************************)
NameInputs == { <<" ","A","n","n"," ">> }
PhoneInputs == { <<"0","9","1","1">> }
StringTypeInputs == { <<"B","G","6","5"," ">> }
TensionInputs == { 26 }

StatusInputs ==
    { ItemStatusName[m] : m \in ItemStatus } \cup
    { <<"I","N","V","A","L","I","D">>,
      <<" ","I","t","e","m","S","t","a","t","u","s",".","d","o","n","e"," ">>,
      <<"D","O","I","T","E","M","S","T","A","T","U","S",".","N","E">> }

NewTokens == _new_token(TokenBytes)

TokenInputs ==
    NewTokens \cup { Pad(t) : t \in NewTokens } \cup
    { <<"5","c","f","f","0","e">> }

\* the date query parameter of the admin routes
DateInputs ==
    { <<"2","0","2","4","-","0","3","-","0","1">>,
      <<"2","0","2","4","-","0","3","-","0","2">>,
      <<"2","0","2","4","-","3","-","2">>,
      <<"2","0","2","4","-","0","3","-","0","3">>,
      <<"2","0","2","4","-","0","2","-","3","0">>,
      <<"0","3","/","0","1","/","2","0","2","4">> }

\* payload["promised_done_time"] of the set-time route; the empty text
\* also stands for a payload without the key
TimeTextInputs ==
    { Pad(Formatted[dt]) : dt \in DateTimes } \cup
    { <<>>, <<" ">>, <<"2","0","2","4","-","0","3","-","0","1","T","0","9",":","0","5">> }

\* the k query parameter of the staff route
STAFF_KEY == <<"C","L","3","K","X","7">>

KeyInputs == { STAFF_KEY, Pad(STAFF_KEY), <<"c","l","3","k","x","7">>, <<>> }

\* the q query parameter of the search route
KeywordInputs ==
    { <<>>, <<" ">>, <<" ","a","n","n"," ">>, <<"5","c">>, <<"_">>, <<"z","z">> }

CustomerIds == 1..MaxCustomers
ItemIds == 1..(Cardinality(HexPool) + 1)

\* the two conversions above, tabulated over the inputs
ParsedStatus == [x \in StatusInputs |-> _parse_status(x)]
StrippedToken == [x \in TokenInputs |-> Strip(x)]

ParsedDate == [x \in DateInputs |-> strptime_date(x)]

\* the days the admin routes are asked about
Days == { ParsedDate[x][1] : x \in { y \in DateInputs : ParsedDate[y] # None } }

\* strptime of the stripped text, or None for a blank or malformed one
ParsedDateTime ==
    [x \in TimeTextInputs \cup {Formatted[LateDateTime]} |->
        IF Strip(x) = <<>> THEN None ELSE strptime(Strip(x))]

StrippedKey == [k \in KeyInputs |-> Strip(k)]

\* kw = (q or "").strip()
StrippedKeyword == [q \in KeywordInputs |-> Strip(q)]

\* (x or "").strip() over the text fields of the creating calls
StrippedText ==
    [x \in NameInputs \cup PhoneInputs \cup StringTypeInputs |-> Strip(x)]

\* the texts the search compares: tokens, customer names and phones
SearchTexts ==
    NewTokens \cup { StrippedText[x] : x \in NameInputs \cup PhoneInputs }

\* ilike(f"%{kw}%"), tabulated
Ilike ==
    [q \in KeywordInputs |->
        [text \in SearchTexts |->
            ilike(text, <<"%">> \o StrippedKeyword[q] \o <<"%">>)]]

(***************************************************************************)
(* Queries on the committed tables.                                        *)
(***************************************************************************)
TokensOf(tbl) == { tbl[i].token : i \in DOMAIN tbl }

\* .filter(OrderItem.token == tok): the matching primary keys
ItemsByToken(tbl, tok) == { i \in DOMAIN tbl : tbl[i].token = tok }

\* the primary key the database gives a new row: the first one not in use
NextId(used) ==
    CHOOSE n \in 1..(Cardinality(used) + 1) :
        n \notin used /\ \A m \in 1..(n - 1) : m \in used

\* datetime.utcnow() reads the wall clock
utcnow == DateTimes

\* a loop that takes the first candidate without looking it up
token_loop_unchecked(i, cands, existing) ==
    [found |-> cands, raised |-> FALSE]

\* the 10-check retry loop: the tokens it can end with, and whether the
\* for-else can be reached, when iteration i starts with a candidate of cands
RECURSIVE token_loop(_, _, _)
token_loop(i, cands, existing) ==
    IF i = RetryLimit
    THEN [found |-> {}, raised |-> cands # {}]
    ELSE LET hit  == cands \cap existing
             rest == IF hit # {}
                     THEN token_loop(i + 1, NewTokens, existing)
                     ELSE [found |-> {}, raised |-> FALSE]
         IN  [found |-> (cands \ existing) \cup rest.found,
              raised |-> rest.raised]

\* an item stored with string_type as the caller supplied it
NewItem_untrimmed(order_id, token, string_type, tension_main, tension_cross, t) ==
    [ order_id           |-> order_id,
      token              |-> token,
      string_type        |-> string_type,
      tension_main       |-> tension_main,
      tension_cross      |-> tension_cross,
      promised_done_time |-> t,
      status             |-> "RECEIVED",
      completed_at       |-> None ]

NewItem(order_id, token, string_type, tension_main, tension_cross, t) ==
    [ order_id           |-> order_id,
      token              |-> token,
      string_type        |-> Strip(string_type),
      tension_main       |-> tension_main,
      tension_cross      |-> tension_cross,
      promised_done_time |-> t,
      status             |-> "RECEIVED",
      completed_at       |-> None ]

NewCustomer(name, phone) == [name |-> Strip(name), phone |-> Strip(phone)]

\* what the last completed call was, its target and what it returned;
\* again: a successful update_item_status that repeats the call before it;
\* stamped: a staff scan that wrote completed_at;
\* ret: the dict a handler built as its return value, if it built one
Op(op, id, st, res) ==
    [ op |-> op, id |-> id, st |-> st, res |-> res,
      again |-> /\ op = "update_item_status" /\ res = "item"
                /\ last.op = op /\ last.id = id
                /\ last.st = st /\ last.res = res,
      stamped |-> FALSE,
      ret |-> None ]

\* the names under which the operations are recorded
Toggle == "staff_toggle_status_by_token"
SetStatus == "update_item_status"
Creates == {"create_order", "admin_create_one"}

\* a database session (one request) and the transaction it has open
IdleSession ==
    [ pc |-> "idle", op |-> "", cust |-> None, ord |-> None, args |-> None,
      token |-> <<>>, i |-> 0, res |-> "" ]

Init ==
    /\ customers = <<>>
    /\ orders = <<>>
    /\ items = <<>>
    /\ last = [op |-> "", id |-> 0, st |-> "", res |-> "", again |-> FALSE,
               stamped |-> FALSE, ret |-> None]
    /\ sess = [s \in Sessions |-> IdleSession]

(***************************************************************************)
(* The operations, each run from its first statement to its commit with    *)
(* no other session active.                                                *)
(***************************************************************************)
create_customer(name, phone) ==
    /\ Cardinality(DOMAIN customers) < MaxCustomers
    /\ LET id == NextId(DOMAIN customers)
       IN  /\ customers' = customers @@ (id :> NewCustomer(name, phone))
           /\ last' = Op("create_customer", id, "", "OK")
    /\ UNCHANGED <<orders, items, sess>>

\* lines 93-106: INSERT the item and COMMIT; the unique index on token
\* rejects a token that a committed row holds, and nothing is committed
InsertAndCommit(op, newCustomers, order_id, customer_id, token, string_type, tension_main, tension_cross, t) ==
    IF token \in TokensOf(items)
    THEN /\ last' = Op(op, 0, "", "UniqueViolation")
         /\ UNCHANGED <<customers, orders, items>>
    ELSE LET id == NextId(DOMAIN items)
         IN  /\ customers' = newCustomers
             /\ orders' = orders @@ (order_id :> [customer_id |-> customer_id])
             /\ items' = items @@
                    (id :> NewItem(order_id, token, string_type,
                                   tension_main, tension_cross, t))
             /\ last' = [Op(op, id, "", "OK") EXCEPT !.ret =
                    IF op = "admin_create_one"
                    THEN Some([customer_id |-> customer_id, item_id |-> id,
                               token |-> token])
                    ELSE None]

\* the flushed Order is committed when the retry loop gives up
create_order_partial(customer_id, string_type, tension_main, tension_cross) ==
    /\ LET out == token_loop(0, NewTokens, TokensOf(items))
       IN  IF customer_id \notin DOMAIN customers
           THEN /\ last' = Op("create_order", 0, "", "ForeignKeyViolation")
                /\ UNCHANGED <<customers, orders, items>>
           ELSE \/ /\ out.raised
                   /\ last' = Op("create_order", 0, "", "RuntimeError")
                   /\ orders' = orders @@
                          (NextId(DOMAIN orders) :> [customer_id |-> customer_id])
                   /\ UNCHANGED <<customers, items>>
                \/ \E token \in out.found, t \in utcnow :
                      InsertAndCommit("create_order", customers,
                                      NextId(DOMAIN orders), customer_id, token,
                                      string_type, tension_main, tension_cross, t)
    /\ UNCHANGED sess

create_order(customer_id, string_type, tension_main, tension_cross) ==
    /\ LET out == token_loop(0, NewTokens, TokensOf(items))
       IN  IF customer_id \notin DOMAIN customers
           THEN \* db.flush(): orders.customer_id references customers.id
                /\ last' = Op("create_order", 0, "", "ForeignKeyViolation")
                /\ UNCHANGED <<customers, orders, items>>
           ELSE \/ /\ out.raised
                   /\ last' = Op("create_order", 0, "", "RuntimeError")
                   /\ UNCHANGED <<customers, orders, items>>
                \/ \E token \in out.found, t \in utcnow :
                      InsertAndCommit("create_order", customers,
                                      NextId(DOMAIN orders), customer_id, token,
                                      string_type, tension_main, tension_cross, t)
    /\ UNCHANGED sess

admin_create_one(name, phone, string_type, tension_main, tension_cross) ==
    /\ Cardinality(DOMAIN customers) < MaxCustomers
    /\ LET cid == NextId(DOMAIN customers)
           out == token_loop(0, NewTokens, TokensOf(items))
       IN  \/ /\ out.raised
              /\ last' = Op("admin_create_one", 0, "", "RuntimeError")
              /\ UNCHANGED <<customers, orders, items>>
           \/ \E token \in out.found, t \in utcnow :
                 InsertAndCommit("admin_create_one",
                                 customers @@ (cid :> NewCustomer(name, phone)),
                                 NextId(DOMAIN orders), cid, token,
                                 string_type, tension_main, tension_cross, t)
    /\ UNCHANGED sess

\* a scan that enters DONE without stamping completed_at
staff_toggle_row_no_stamp(row, t) ==
    [row EXCEPT !.status = _cycle_status(row.status)]

\* every entry into DONE by a scan writes completed_at anew
staff_toggle_row_restamp(row, t) ==
    LET st == _cycle_status(row.status)
    IN  [row EXCEPT !.status = st,
                    !.completed_at = IF st = "DONE" THEN Some(t) ELSE @]

\* lines 155-158: the row after a staff scan at time t
staff_toggle_row(row, t) ==
    LET st == _cycle_status(row.status)
    IN  [row EXCEPT !.status = st,
                    !.completed_at =
                        IF st = "DONE" /\ @ = None THEN Some(t) ELSE @]

\* a scan that advances every item once one item matches the token
staff_toggle_status_by_token_every(token) ==
    LET tok == StrippedToken[token]
        found == ItemsByToken(items, tok)
    IN  /\ IF found = {}
           THEN /\ last' = Op("staff_toggle_status_by_token", 0, "", "None")
                /\ UNCHANGED items
           ELSE \E id \in found, t \in utcnow :
                /\ items' = [i \in DOMAIN items |-> staff_toggle_row(items[i], t)]
                /\ last' = Op("staff_toggle_status_by_token", id, "", "item")
        /\ UNCHANGED <<customers, orders, sess>>

staff_toggle_status_by_token(token) ==
    LET tok == StrippedToken[token]
        found == ItemsByToken(items, tok)
    IN  /\ IF found = {}
           THEN /\ last' = Op("staff_toggle_status_by_token", 0, "", "None")
                /\ UNCHANGED items
           ELSE \E id \in found, t \in utcnow :
                /\ items' = [items EXCEPT ![id] = staff_toggle_row(@, t)]
                /\ last' = [Op("staff_toggle_status_by_token", id, "", "item")
                               EXCEPT !.stamped =
                                   staff_toggle_row(items[id], t).completed_at
                                       # items[id].completed_at]
        /\ UNCHANGED <<customers, orders, sess>>

\* completed_at survives leaving DONE
update_item_status_row_keep(row, st, t) ==
    [row EXCEPT !.status = st,
                !.completed_at =
                    IF st = "DONE" /\ @ = None THEN Some(t) ELSE @]

\* completed_at is stamped on every entry into DONE
update_item_status_row_restamp(row, st, t) ==
    [row EXCEPT !.status = st,
                !.completed_at = IF st = "DONE" THEN Some(t) ELSE None]

\* lines 236-244: the row after the admin sets status st at time t
update_item_status_row(row, st, t) ==
    LET c1 == IF st = "DONE" /\ row.completed_at = None
              THEN Some(t) ELSE row.completed_at
        c2 == IF st # "DONE" /\ c1 # None THEN None ELSE c1
    IN  [row EXCEPT !.status = st, !.completed_at = c2]

\* an unrecognised status resets the item to RECEIVED before it is reported
update_item_status_reset(item_id, status) ==
    /\ IF item_id \notin DOMAIN items
       THEN /\ last' = Op("update_item_status", 0, "", "None")
            /\ UNCHANGED items
       ELSE LET st == ParsedStatus[status]
            IN  IF st = "ValueError"
                THEN /\ last' = Op("update_item_status", item_id, st, "None")
                     /\ items' = [items EXCEPT ![item_id].status = "RECEIVED"]
                ELSE \E t \in utcnow :
                     /\ items' = [items EXCEPT
                            ![item_id] = update_item_status_row(@, st, t)]
                     /\ last' = Op("update_item_status", item_id, st, "item")
    /\ UNCHANGED <<customers, orders, sess>>

update_item_status(item_id, status) ==
    /\ IF item_id \notin DOMAIN items
       THEN /\ last' = Op("update_item_status", 0, "", "None")
            /\ UNCHANGED items
       ELSE LET st == ParsedStatus[status]
            IN  IF st = "ValueError"
                THEN /\ last' = Op("update_item_status", item_id, st, "None")
                     /\ UNCHANGED items
                ELSE \E t \in utcnow :
                     /\ items' = [items EXCEPT
                            ![item_id] = update_item_status_row(@, st, t)]
                     /\ last' = Op("update_item_status", item_id, st, "item")
    /\ UNCHANGED <<customers, orders, sess>>

\* the new time is also written to completed_at
update_promised_done_time_as_completed(item_id, promised) ==
    /\ IF item_id \notin DOMAIN items
       THEN /\ last' = Op("update_promised_done_time", 0, "", "None")
            /\ UNCHANGED items
       ELSE /\ items' = [items EXCEPT ![item_id].promised_done_time = promised,
                                      ![item_id].completed_at = Some(promised)]
            /\ last' = Op("update_promised_done_time", item_id, "", "item")
    /\ UNCHANGED <<customers, orders, sess>>

update_promised_done_time(item_id, promised) ==
    /\ IF item_id \notin DOMAIN items
       THEN /\ last' = Op("update_promised_done_time", 0, "", "None")
            /\ UNCHANGED items
       ELSE /\ items' = [items EXCEPT ![item_id].promised_done_time = promised]
            /\ last' = Op("update_promised_done_time", item_id, "", "item")
    /\ UNCHANGED <<customers, orders, sess>>

\* PATCH /api/admin/items/{item_id}/promised_done_time
api_admin_set_time(item_id, text) ==
    IF ParsedDateTime[text] = None
    THEN /\ last' = Op("api_admin_set_time", 0, "", "400")
         /\ UNCHANGED <<customers, orders, items, sess>>
    ELSE update_promised_done_time(item_id, ParsedDateTime[text][1])

\* POST /api/staff/toggle/{token}?k=...
api_staff_toggle(token, k) ==
    IF StrippedKey[k] # STAFF_KEY
    THEN /\ last' = Op("api_staff_toggle", 0, "", "403")
         /\ UNCHANGED <<customers, orders, items, sess>>
    ELSE staff_toggle_status_by_token(token)

(***************************************************************************)
(* The reading operations: what each query returns in the committed state. *)
(***************************************************************************)
\* a projection that also shows the item's status and token
get_item_by_token_with_status(token) ==
    LET found == ItemsByToken(items, StrippedToken[token])
    IN  IF found = {} THEN None
        ELSE LET obj == items[CHOOSE i \in found : TRUE]
             IN  Some([ name          |-> customers[orders[obj.order_id].customer_id].name,
                        string_type   |-> obj.string_type,
                        tension_main  |-> obj.tension_main,
                        tension_cross |-> obj.tension_cross,
                        status        |-> obj.status,
                        token         |-> obj.token,
                        done_time     |-> Formatted[obj.promised_done_time] ])

\* the dict for the customer page, or None
get_item_by_token(token) ==
    LET tok == StrippedToken[token]
        found == ItemsByToken(items, tok)
    IN  IF found = {} THEN None
        ELSE LET obj == items[CHOOSE i \in found : TRUE]
             IN  IF \/ obj.order_id \notin DOMAIN orders
                    \/ orders[obj.order_id].customer_id \notin DOMAIN customers
                 THEN None
                 ELSE LET c == customers[orders[obj.order_id].customer_id]
                          \* completed_at or promised_done_time
                          done_dt == IF obj.completed_at # None
                                     THEN obj.completed_at[1]
                                     ELSE obj.promised_done_time
                      IN  Some([ name          |-> c.name,
                                 string_type   |-> obj.string_type,
                                 tension_main  |-> obj.tension_main,
                                 tension_cross |-> obj.tension_cross,
                                 done_time     |-> Formatted[done_dt] ])

\* data.get(key, ""): the value under key, "" when the dict has none
DictGet(data, key) == IF key \in DOMAIN data THEN data[key] ELSE <<>>

\* GET /public/{token}
public_info(token) ==
    /\ LET data == get_item_by_token(token)
       IN  IF data = None
           THEN last' = Op("public_info", 0, "", "404")
           ELSE last' = [Op("public_info", 0, "", "200") EXCEPT !.ret =
                    Some([ name          |-> DictGet(data[1], "name"),
                           string_type   |-> DictGet(data[1], "string_type"),
                           tension_main  |-> DictGet(data[1], "tension_main"),
                           tension_cross |-> DictGet(data[1], "tension_cross"),
                           done_time     |-> DictGet(data[1], "done_time") ])]
    /\ UNCHANGED <<customers, orders, items, sess>>

\* GET /staff_toggle/{token}
staff_qr_toggle(token) ==
    IF get_item_by_token(token) = None
    THEN /\ last' = Op("staff_qr_toggle", 0, "", "404")
         /\ UNCHANGED <<customers, orders, items, sess>>
    ELSE staff_toggle_status_by_token(token)

\* the HTTP status of the response: an exception no route handles is
\* answered by the server with 500
response_status(res) ==
    IF res \in {"200", "item", "OK"} THEN 200
    ELSE IF res = "400" THEN 400
    ELSE IF res = "403" THEN 403
    ELSE IF res \in {"404", "None"} THEN 404
    ELSE 500

\* .filter(func.date(OrderItem.promised_done_time) == day): the primary keys
OnDay(day) == { i \in DOMAIN items : date(items[i].promised_done_time) = day }

\* .order_by(OrderItem.id.desc()): the keys of S, largest first
RECURSIVE IdDesc(_)
IdDesc(S) ==
    IF S = {} THEN <<>>
    ELSE LET m == CHOOSE x \in S : \A y \in S : y <= x
         IN  <<m>> \o IdDesc(S \ {m})

\* st.value, the text of the member (each value is its member's name)
_status_str(st) == ItemStatusName[st]

_to_admin_item(id) ==
    LET obj  == items[id]
        cust == IF /\ obj.order_id \in DOMAIN orders
                   /\ orders[obj.order_id].customer_id \in DOMAIN customers
                THEN Some(customers[orders[obj.order_id].customer_id])
                ELSE None
    IN  [ id                 |-> id,
          token              |-> obj.token,
          status             |-> _status_str(obj.status),
          string_type        |-> obj.string_type,
          tension_main       |-> obj.tension_main,
          tension_cross      |-> obj.tension_cross,
          promised_done_time |-> Formatted[obj.promised_done_time],
          customer_name      |-> IF cust = None THEN None ELSE Some(cust[1].name),
          customer_phone     |-> IF cust = None THEN None ELSE Some(cust[1].phone) ]

admin_list_items_by_date(day) ==
    LET ids == IdDesc(OnDay(day))
    IN  [k \in 1..Len(ids) |-> _to_admin_item(ids[k])]

SearchLimit == 200

\* a search that sends the blank keyword to the database as well
admin_search_blank_too(q) ==
    LET hits == { i \in DOMAIN items :
                    /\ items[i].order_id \in DOMAIN orders
                    /\ orders[items[i].order_id].customer_id \in DOMAIN customers
                    /\ LET c == customers[orders[items[i].order_id].customer_id]
                       IN  \/ Ilike[q][items[i].token]
                           \/ Ilike[q][c.name]
                           \/ Ilike[q][c.phone] }
        ids == IdDesc(hits)
    IN  [k \in 1..Len(ids) |-> _to_admin_item(ids[k])]

admin_search(q) ==
    LET kw == StrippedKeyword[q]
    IN  IF kw = <<>> THEN <<>>
        ELSE LET \* the two joins keep the items that have an order and a customer
                 hits == { i \in DOMAIN items :
                    /\ items[i].order_id \in DOMAIN orders
                    /\ orders[items[i].order_id].customer_id \in DOMAIN customers
                    /\ LET c == customers[orders[items[i].order_id].customer_id]
                       IN  \/ Ilike[q][items[i].token]
                           \/ Ilike[q][c.name]
                           \/ Ilike[q][c.phone] }
                 ids == IdDesc(hits)
                 n == IF Len(ids) < SearchLimit THEN Len(ids) ELSE SearchLimit
             IN  [k \in 1..n |-> _to_admin_item(ids[k])]

\* GET /api/admin/search?q=...
api_admin_search(q) ==
    /\ last' = Op("api_admin_search", 0, "", "200")
    /\ UNCHANGED <<customers, orders, items, sess>>

\* a summary whose total counts the items of every day
admin_summary_by_date_all_days(day) ==
    [ total     |-> Cardinality(DOMAIN items),
      by_status |-> [st \in { items[i].status : i \in OnDay(day) } |->
                        Cardinality({ i \in OnDay(day) : items[i].status = st })],
      by_hour   |-> [h \in { Dec2(items[i].promised_done_time.hour) :
                                 i \in OnDay(day) } |->
                        Cardinality({ i \in OnDay(day) :
                            Dec2(items[i].promised_done_time.hour) = h })] ]

\* the databases the code is written for: the default URL of the engine
\* and the one the comment of admin_summary_by_date names beside it
Dialects == {"postgresql", "sqlite"}

\* strftime is an SQL function of SQLite; PostgreSQL has none of that name
HasStrftime(dialect) == dialect = "sqlite"

\* PostgreSQL refuses every further statement of a transaction in which a
\* statement has failed; the session keeps the transaction it began
AbortsTransaction(dialect) == dialect = "postgresql"

\* how the by_hour part ends: with the rows of the strftime query, with
\* the grouping of the except branch, or with the error its query raises
by_hour_outcome(dialect) ==
    IF HasStrftime(dialect) THEN "strftime"
    ELSE IF AbortsTransaction(dialect) THEN "InternalError"
    ELSE "fallback"

\* the dict the function returns once its queries have run; the keys of
\* by_hour are the hours as strftime %H and as the format 02d write them
admin_summary_by_date(day) ==
    [ total     |-> Cardinality(OnDay(day)),
      by_status |-> [st \in { _status_str(items[i].status) : i \in OnDay(day) } |->
                        Cardinality({ i \in OnDay(day) :
                            _status_str(items[i].status) = st })],
      by_hour   |-> [h \in { Dec2(items[i].promised_done_time.hour) :
                                 i \in OnDay(day) } |->
                        Cardinality({ i \in OnDay(day) :
                            Dec2(items[i].promised_done_time.hour) = h })] ]

\* GET /api/admin/summary?date=...
api_admin_summary(date_text) ==
    /\ \E dialect \in Dialects :
          LET res == IF ParsedDate[date_text] = None THEN "ValueError"
                     ELSE IF by_hour_outcome(dialect) = "InternalError"
                          THEN "InternalError"
                          ELSE "200"
          IN  last' = [Op("api_admin_summary", 0, "", res) EXCEPT !.ret =
                          IF res = "200"
                          THEN Some(admin_summary_by_date(ParsedDate[date_text][1]))
                          ELSE None]
    /\ UNCHANGED <<customers, orders, items, sess>>

\* GET /api/admin/items?date=...
api_admin_items(date_text) ==
    /\ last' = Op("api_admin_items", 0, "",
                  IF ParsedDate[date_text] = None THEN "ValueError" ELSE "200")
    /\ UNCHANGED <<customers, orders, items, sess>>

\* PATCH /api/admin/items/{item_id}/status: the HTTP status of the response
\* for what update_item_status returned ("None" or "item")
api_admin_set_status(returned) == IF returned = "None" THEN 404 ELSE 200

\* PATCH /items/{item_id}/status
change_status(returned) == IF returned = "None" THEN 404 ELSE 200

Next ==
    \/ \E n \in NameInputs, p \in PhoneInputs : create_customer(n, p)
    \/ \E c \in CustomerIds, s \in StringTypeInputs,
          tm \in TensionInputs, tc \in TensionInputs :
          create_order(c, s, tm, tc)
    \/ \E n \in NameInputs, p \in PhoneInputs, s \in StringTypeInputs,
          tm \in TensionInputs, tc \in TensionInputs :
          admin_create_one(n, p, s, tm, tc)
    \/ \E tok \in TokenInputs, k \in KeyInputs : api_staff_toggle(tok, k)
    \/ \E tok \in TokenInputs : staff_qr_toggle(tok)
    \/ \E id \in ItemIds, s \in StatusInputs : update_item_status(id, s)
    \/ \E id \in ItemIds, x \in TimeTextInputs : api_admin_set_time(id, x)
    \/ \E tok \in TokenInputs : public_info(tok)
    \/ \E d \in DateInputs : api_admin_summary(d)
    \/ \E d \in DateInputs : api_admin_items(d)
    \/ \E q \in KeywordInputs : api_admin_search(q)

Spec == Init /\ [][Next]_vars

(***************************************************************************)
(* The two creating operations statement by statement, for sessions that   *)
(* run at the same time.  A session sees the committed rows and its own    *)
(* uncommitted ones (READ COMMITTED); its rows become visible at COMMIT.   *)
(***************************************************************************)
PendingIds(field) ==
    { sess[x][field][1].id : x \in { y \in Sessions : sess[y][field] # None } }

Ended(s, res) ==
    sess' = [sess EXCEPT ![s] = [IdleSession EXCEPT !.op = sess[s].op,
                                                    !.res = res]]

\* the flush of the Order is also its commit
create_order_begin_autocommit(s, customer_id, string_type, tension_main, tension_cross) ==
    /\ sess[s].pc = "idle"
    /\ IF customer_id \notin DOMAIN customers
       THEN /\ sess' = [sess EXCEPT ![s] =
                  [IdleSession EXCEPT !.op = "create_order",
                                      !.res = "ForeignKeyViolation"]]
            /\ UNCHANGED orders
       ELSE \E token \in NewTokens :
            LET oid == NextId(DOMAIN orders \cup PendingIds("ord"))
            IN  /\ sess' = [sess EXCEPT ![s] =
                    [ pc |-> "loop", op |-> "create_order", cust |-> None,
                      ord |-> Some([id |-> oid, customer_id |-> customer_id]),
                      args |-> Some([string_type |-> string_type,
                                     tension_main |-> tension_main,
                                     tension_cross |-> tension_cross]),
                      token |-> token, i |-> 0, res |-> "" ]]
                /\ orders' = orders @@ (oid :> [customer_id |-> customer_id])
    /\ UNCHANGED <<customers, items, last>>

\* create_order lines 75-80: add the Order, flush, draw the first candidate
create_order_begin(s, customer_id, string_type, tension_main, tension_cross) ==
    /\ sess[s].pc = "idle"
    /\ IF customer_id \notin DOMAIN customers
       THEN sess' = [sess EXCEPT ![s] =
                [IdleSession EXCEPT !.op = "create_order",
                                    !.res = "ForeignKeyViolation"]]
       ELSE \E token \in NewTokens :
            sess' = [sess EXCEPT ![s] =
                [ pc |-> "loop", op |-> "create_order", cust |-> None,
                  ord |-> Some([id |-> NextId(DOMAIN orders \cup PendingIds("ord")),
                                customer_id |-> customer_id]),
                  args |-> Some([string_type |-> string_type,
                                 tension_main |-> tension_main,
                                 tension_cross |-> tension_cross]),
                  token |-> token, i |-> 0, res |-> "" ]]
    /\ UNCHANGED <<customers, orders, items, last>>

\* admin_create_one lines 174-187: add Customer and Order, flush, draw
admin_create_one_begin(s, name, phone, string_type, tension_main, tension_cross) ==
    /\ sess[s].pc = "idle"
    /\ Cardinality(DOMAIN customers \cup PendingIds("cust")) < MaxCustomers
    /\ LET cid == NextId(DOMAIN customers \cup PendingIds("cust"))
       IN  \E token \in NewTokens :
           sess' = [sess EXCEPT ![s] =
               [ pc |-> "loop", op |-> "admin_create_one",
                 cust |-> Some([id |-> cid, row |-> NewCustomer(name, phone)]),
                 ord |-> Some([id |-> NextId(DOMAIN orders \cup PendingIds("ord")),
                               customer_id |-> cid]),
                 args |-> Some([string_type |-> string_type,
                                tension_main |-> tension_main,
                                tension_cross |-> tension_cross]),
                 token |-> token, i |-> 0, res |-> "" ]]
    /\ UNCHANGED <<customers, orders, items, last>>

\* lines 81-91 / 188-198: one pass of the retry loop
token_check(s) ==
    /\ sess[s].pc = "loop"
    /\ IF sess[s].token \notin TokensOf(items)
       THEN sess' = [sess EXCEPT ![s].pc = "insert"]
       ELSE \E token \in NewTokens :
            IF sess[s].i + 1 = RetryLimit
            THEN Ended(s, "RuntimeError")
            ELSE sess' = [sess EXCEPT ![s].token = token, ![s].i = @ + 1]
    /\ UNCHANGED <<customers, orders, items, last>>

\* lines 93-104 / 200-212: INSERT the item and COMMIT the transaction
item_insert_commit(s) ==
    /\ sess[s].pc = "insert"
    /\ IF sess[s].token \in TokensOf(items)
       THEN /\ Ended(s, "UniqueViolation")
            /\ UNCHANGED <<customers, orders, items>>
       ELSE \E t \in utcnow :
            LET o == sess[s].ord[1]
                a == sess[s].args[1]
            IN  /\ customers' =
                       IF sess[s].cust = None THEN customers
                       ELSE customers @@
                            (sess[s].cust[1].id :> sess[s].cust[1].row)
                /\ orders' = orders @@ (o.id :> [customer_id |-> o.customer_id])
                /\ items' = items @@
                       (NextId(DOMAIN items) :>
                            NewItem(o.id, sess[s].token, a.string_type,
                                    a.tension_main, a.tension_cross, t))
                /\ Ended(s, "OK")
    /\ UNCHANGED last

NextConc ==
    \/ \E s \in Sessions, c \in CustomerIds, st \in StringTypeInputs,
          tm \in TensionInputs, tc \in TensionInputs :
          create_order_begin(s, c, st, tm, tc)
    \/ \E s \in Sessions, n \in NameInputs, p \in PhoneInputs,
          st \in StringTypeInputs, tm \in TensionInputs, tc \in TensionInputs :
          admin_create_one_begin(s, n, p, st, tm, tc)
    \/ \E s \in Sessions : token_check(s)
    \/ \E s \in Sessions : item_insert_commit(s)

SpecConc == Init /\ [][NextConc]_vars

(***************************************************************************)
(* The creating operations with tensions over every sign: OrderCreate and  *)
(* AdminCreateOneIn declare tension_main and tension_cross as int and      *)
(* nothing narrows them before the INSERT.                                 *)
(***************************************************************************)
AnyTensionInputs == TensionInputs \cup {0, -3}

NextAnyTension ==
    \/ \E n \in NameInputs, p \in PhoneInputs : create_customer(n, p)
    \/ \E c \in CustomerIds, s \in StringTypeInputs,
          tm \in AnyTensionInputs, tc \in AnyTensionInputs :
          create_order(c, s, tm, tc)
    \/ \E n \in NameInputs, p \in PhoneInputs, s \in StringTypeInputs,
          tm \in AnyTensionInputs, tc \in AnyTensionInputs :
          admin_create_one(n, p, s, tm, tc)

SpecAnyTension == Init /\ [][NextAnyTension]_vars

(***************************************************************************)
(* The two status-mutating operations statement by statement, for sessions *)
(* that run at the same time.  A session SELECTs the row into its object,  *)
(* assigns attributes of the object, and at db.commit() the flush sends    *)
(* UPDATE order_items SET <the attributes whose value changed> WHERE id =  *)
(* <id>, which the database applies to the row as committed by then.       *)
(***************************************************************************)
MaxScanItems == 1

\* staff_toggle_status_by_token lines 150-153: strip, SELECT, not found
staff_toggle_load(s, token) ==
    /\ sess[s].pc = "idle"
    /\ LET found == ItemsByToken(items, StrippedToken[token])
       IN  IF found = {}
           THEN sess' = [sess EXCEPT ![s] =
                    [IdleSession EXCEPT !.op = Toggle, !.res = "None"]]
           ELSE \E id \in found :
                sess' = [sess EXCEPT ![s] =
                    [IdleSession EXCEPT
                        !.pc = "loaded", !.op = Toggle,
                        !.args = Some([id |-> id, seen |-> items[id],
                                       st |-> ""])]]
    /\ UNCHANGED <<customers, orders, items, last>>

\* update_item_status lines 227-234: SELECT, not found, parse
update_item_status_load(s, item_id, status) ==
    /\ sess[s].pc = "idle"
    /\ IF item_id \notin DOMAIN items \/ ParsedStatus[status] = "ValueError"
       THEN sess' = [sess EXCEPT ![s] =
                [IdleSession EXCEPT !.op = SetStatus, !.res = "None"]]
       ELSE sess' = [sess EXCEPT ![s] =
                [IdleSession EXCEPT
                    !.pc = "loaded", !.op = SetStatus,
                    !.args = Some([id |-> item_id, seen |-> items[item_id],
                                   st |-> ParsedStatus[status]])]]
    /\ UNCHANGED <<customers, orders, items, last>>

\* the object after the assignments of lines 155-158 / 236-244
assigned(s, t) ==
    LET a == sess[s].args[1]
    IN  IF sess[s].op = Toggle
        THEN staff_toggle_row(a.seen, t)
        ELSE update_item_status_row(a.seen, a.st, t)

\* db.commit(): the UPDATE of the changed attributes, then COMMIT
status_commit(s) ==
    /\ sess[s].pc = "loaded"
    /\ \E t \in utcnow :
          LET a   == sess[s].args[1]
              obj == assigned(s, t)
          IN  items' = [items EXCEPT
                  ![a.id].status =
                      IF obj.status # a.seen.status THEN obj.status ELSE @,
                  ![a.id].completed_at =
                      IF obj.completed_at # a.seen.completed_at
                      THEN obj.completed_at ELSE @]
    /\ Ended(s, "item")
    /\ UNCHANGED <<customers, orders, last>>

NextStatusConc ==
    \/ \E n \in NameInputs, p \in PhoneInputs, st \in StringTypeInputs,
          tm \in TensionInputs, tc \in TensionInputs :
          /\ Cardinality(DOMAIN items) < MaxScanItems
          /\ admin_create_one(n, p, st, tm, tc)
    \/ \E s \in Sessions, tok \in TokenInputs : staff_toggle_load(s, tok)
    \/ \E s \in Sessions, id \in ItemIds, st \in StatusInputs :
          update_item_status_load(s, id, st)
    \/ \E s \in Sessions : status_commit(s)

SpecStatusConc == Init /\ [][NextStatusConc]_vars

(***************************************************************************)
(* What the program offers: the functions of crud.py and the routes of     *)
(* main.py, each by the name of its def.                                   *)
(***************************************************************************)
CrudOperations ==
    { "create_customer", "create_order", "get_item_by_id", "get_item_by_token",
      "staff_toggle_status_by_token", "admin_create_one", "update_item_status",
      "update_promised_done_time", "admin_list_items_by_date", "admin_search",
      "admin_summary_by_date" }

RouteHandlers ==
    { "manifest", "sw", "create_customer", "create_order", "change_status",
      "public_info", "track_page", "qrcode_img", "api_staff_toggle",
      "staff_page", "qrcode_staff_img", "api_admin_summary", "api_admin_items",
      "api_admin_search", "api_admin_set_status", "api_admin_set_time",
      "admin_page", "staff_qr_toggle", "health" }

(***************************************************************************)
(* The daily worklist when the admin moves promised times within a day.    *)
(***************************************************************************)
AnyTimeTextInputs == TimeTextInputs \cup {Formatted[LateDateTime]}

NextWorklist ==
    \/ \E n \in NameInputs, p \in PhoneInputs, s \in StringTypeInputs,
          tm \in TensionInputs, tc \in TensionInputs :
          admin_create_one(n, p, s, tm, tc)
    \/ \E id \in ItemIds, x \in AnyTimeTextInputs : api_admin_set_time(id, x)
    \/ \E d \in DateInputs : api_admin_items(d)

SpecWorklist == Init /\ [][NextWorklist]_vars

(***************************************************************************)
(* Properties.                                                             *)
(***************************************************************************)

\* C1: after any sequence of operations every item has status DONE if and
\* only if its completed_at is not null.
C1_DoneIffCompletedAt ==
    \A i \in DOMAIN items :
        (items[i].status = "DONE") <=> (items[i].completed_at # None)

\* C2: a staff toggle of an item in RECEIVED makes it WORKING with
\* completed_at null; a staff toggle of an item in WORKING makes it DONE
\* with completed_at not null.
C2_StaffToggleAdvances ==
    [][ (last'.op = Toggle /\ last'.res = "item") =>
            LET before == items[last'.id]
                after  == items'[last'.id]
            IN  /\ before.status = "RECEIVED" =>
                       after.status = "WORKING" /\ after.completed_at = None
                /\ before.status = "WORKING" =>
                       after.status = "DONE" /\ after.completed_at # None
      ]_vars

C2_Witness ==
    /\ last.op = Toggle /\ last.res = "item"
    /\ items[last.id].status = "DONE"
    /\ items[last.id].completed_at # None

\* C3: a staff toggle never leaves the item in PICKED_UP or RECEIVED: the
\* item it acted on is in WORKING or DONE.
C3_StaffToggleCycle ==
    (last.op = Toggle /\ last.res = "item") =>
        items[last.id].status \in {"WORKING", "DONE"}

\* a toggle that took the item from DONE back to WORKING
C3_Witness ==
    /\ last.op = Toggle /\ last.res = "item"
    /\ items[last.id].status = "WORKING"
    /\ items[last.id].completed_at # None

\* C4: update_item_status on an existing item with a valid status T
\* succeeds and sets status T from any state; entering DONE stamps a null
\* completed_at and keeps one already set; any other T leaves it null.
C4_AdminDirectSet ==
    [][ (last'.op = SetStatus /\ last'.st \in ItemStatus) =>
            LET before == items[last'.id]
                after  == items'[last'.id]
                T      == last'.st
            IN  /\ last'.res = "item"
                /\ after.status = T
                /\ (T = "DONE" /\ before.completed_at = None) =>
                       after.completed_at # None
                /\ (T = "DONE" /\ before.completed_at # None) =>
                       after.completed_at = before.completed_at
                /\ T # "DONE" => after.completed_at = None
      ]_vars

C4_Witness ==
    /\ last.op = SetStatus /\ last.res = "item" /\ last.st = "PICKED_UP"
    /\ items[last.id].status = "PICKED_UP"
    /\ \E j \in DOMAIN items : items[j].status = "DONE"

\* C5: update_item_status on an existing item with a status string that
\* is rejected returns nothing and leaves every table as it was.
C5_InvalidStatusNoMutation ==
    [][ (last'.op = SetStatus /\ last'.st = "ValueError") =>
            /\ last'.res = "None"
            /\ UNCHANGED <<customers, orders, items>>
      ]_vars

C5_Witness ==
    /\ last.op = SetStatus /\ last.st = "ValueError" /\ last.res = "None"
    /\ last.id \in DOMAIN items
    /\ items[last.id].status = "DONE"

\* C6: the response to update_item_status for a missing item id differs
\* from the response for an existing item with an invalid status string
\* (here: the two calls made one after the other).
C6_NotFoundDistinguishable ==
    [][ ( /\ last.op = SetStatus /\ last.id = 0 /\ last.res = "None"
          /\ last'.op = SetStatus /\ last'.st = "ValueError" ) =>
            /\ api_admin_set_status(last.res) # api_admin_set_status(last'.res)
            /\ change_status(last.res) # change_status(last'.res)
      ]_vars

\* C7: update_item_status is idempotent: a second successful call with the
\* same item and the same status right after the first changes nothing.
C7_AdminSetIdempotent ==
    [][ ( /\ last.op = SetStatus /\ last.res = "item"
          /\ last'.op = SetStatus /\ last'.res = "item"
          /\ last'.id = last.id /\ last'.st = last.st ) =>
            /\ items' = items
            /\ items'[last'.id].status = last'.st
            /\ last'.st = "WORKING" => items'[last'.id].completed_at = None
      ]_vars

C7_Witness ==
    /\ last.op = SetStatus /\ last.again /\ last.st = "DONE"
    /\ items[last.id].completed_at # None

\* C8: with the creating operations run one after the other no two items
\* share a token, and the insert never meets a token already stored (the
\* loop found it absent).
C8_TokensUnique ==
    /\ \A i, j \in DOMAIN items : i # j => items[i].token # items[j].token
    /\ last.op \in Creates => last.res # "UniqueViolation"

C8_Witness ==
    /\ last.op \in Creates /\ last.res = "OK"
    /\ Cardinality(DOMAIN items) = 2

\* C9: with concurrent creating calls at most one item holds a token, and
\* a call ends with its item stored or with the token-generation error
\* (RuntimeError), never otherwise.
C9_OneHolderOrExhausted ==
    /\ \A i, j \in DOMAIN items : i # j => items[i].token # items[j].token
    /\ \A s \in Sessions :
          (sess[s].pc = "idle" /\ sess[s].op \in Creates) =>
              sess[s].res \in {"OK", "RuntimeError", "ForeignKeyViolation"}

\* C10: a call whose INSERT meets the unique index on token does not end
\* there: it starts the operation again with a fresh token.
C10_ViolationRetried ==
    [][ \A s \in Sessions :
            ( /\ sess[s].pc = "insert"
              /\ sess[s].token \in TokensOf(items)
              /\ sess'[s].pc # "insert" ) =>
                (sess'[s].pc = "loop" /\ sess'[s].op = sess[s].op)
      ]_vars

\* C11: a creating call whose retry loop finds every candidate token taken
\* ends with the fatal error (RuntimeError); such a call stores no item,
\* no order and no customer, and no token is held twice afterwards.
C11_ExhaustionRollsBack ==
    [][ /\ ( /\ last'.op \in Creates
             /\ NewTokens \subseteq TokensOf(items)
             /\ last'.res # "ForeignKeyViolation" ) =>
               last'.res = "RuntimeError"
        /\ (last'.op \in Creates /\ last'.res = "RuntimeError") =>
               /\ UNCHANGED <<customers, orders, items>>
               /\ \A i, j \in DOMAIN items' :
                      i # j => items'[i].token # items'[j].token
      ]_vars

C11_Witness ==
    /\ last.op = "create_order" /\ last.res = "RuntimeError"
    /\ NewTokens \subseteq TokensOf(items)
    /\ DOMAIN orders = DOMAIN items

\* C12: a successful create_order(customer_id, string_type, tension_main,
\* tension_cross) is for an existing customer, adds exactly one order that
\* references customer_id and exactly one item of that order, and changes
\* nothing else; the item is RECEIVED with completed_at null, the trimmed
\* string_type, the tensions supplied and a reading of the clock as
\* promised_done_time.  A successful admin_create_one does the same with
\* one new customer (trimmed name and phone) and returns that customer's
\* id, the item's id and the item's token.
C12_Created(customer_id, string_type, tension_main, tension_cross) ==
    LET id  == last'.id
        oid == items'[id].order_id
    IN  /\ oid \notin DOMAIN orders
        /\ orders' = orders @@ (oid :> [customer_id |-> customer_id])
        /\ id \notin DOMAIN items
        /\ \E t \in utcnow :
              items' = items @@
                  (id :> [ order_id           |-> oid,
                           token              |-> items'[id].token,
                           string_type        |-> StrippedText[string_type],
                           tension_main       |-> tension_main,
                           tension_cross      |-> tension_cross,
                           promised_done_time |-> t,
                           status             |-> "RECEIVED",
                           completed_at       |-> None ])

C12_CreateResult ==
    [][ /\ \A c \in CustomerIds, s \in StringTypeInputs,
              tm \in TensionInputs, tc \in TensionInputs :
              ( /\ last'.op = "create_order" /\ last'.res = "OK"
                /\ create_order(c, s, tm, tc) ) =>
                  /\ c \in DOMAIN customers
                  /\ customers' = customers
                  /\ C12_Created(c, s, tm, tc)
        /\ \A n \in NameInputs, p \in PhoneInputs, s \in StringTypeInputs,
              tm \in TensionInputs, tc \in TensionInputs :
              ( /\ last'.op = "admin_create_one" /\ last'.res = "OK"
                /\ admin_create_one(n, p, s, tm, tc) ) =>
                  \E cid \in CustomerIds \ DOMAIN customers :
                      /\ customers' = customers @@
                             (cid :> [ name  |-> StrippedText[n],
                                       phone |-> StrippedText[p] ])
                      /\ C12_Created(cid, s, tm, tc)
                      /\ last'.ret =
                             Some([ customer_id |-> cid,
                                    item_id     |-> last'.id,
                                    token       |-> items'[last'.id].token ])
      ]_vars

\* an order placed for a customer who already has one
C12_Witness ==
    /\ last.op = "create_order" /\ last.res = "OK"
    /\ items[last.id].status = "RECEIVED"
    /\ \E o \in DOMAIN orders :
          /\ o # items[last.id].order_id
          /\ orders[o].customer_id = orders[items[last.id].order_id].customer_id

\* C13: every token stored by create_order or admin_create_one is not
\* empty, is exactly 8 characters long and has only characters of the
\* uppercase alphanumeric alphabet (A-Z, 0-9).
C13_TokenEightUpperAlnum ==
    \A i \in DOMAIN items :
        LET tok == items[i].token
        IN  /\ tok # <<>>
            /\ Len(tok) = 8
            /\ \A k \in 1..Len(tok) :
                  tok[k] \in { Uppers[n] : n \in 1..Len(Uppers) } \cup
                             {"0","1","2","3","4","5","6","7","8","9"}

\* C14: after every operation each item's order_id is the id of a stored
\* order and each order's customer_id is the id of a stored customer; and
\* create_order with a customer_id that no customer has ends with the
\* not-found result and stores no order and no item.
C14_ReferencesExist ==
    [][ /\ \A i \in DOMAIN items' : items'[i].order_id \in DOMAIN orders'
        /\ \A o \in DOMAIN orders' :
              orders'[o].customer_id \in DOMAIN customers'
        /\ \A c \in CustomerIds \ DOMAIN customers, s \in StringTypeInputs,
              tm \in TensionInputs, tc \in TensionInputs :
              (last'.op = "create_order" /\ create_order(c, s, tm, tc)) =>
                  /\ last'.res = "NotFound"
                  /\ UNCHANGED <<customers, orders, items>>
      ]_vars

\* C15: every stored item has tension_main > 0 and tension_cross > 0,
\* whatever integers the callers of create_order and admin_create_one
\* supply.
C15_TensionsPositive ==
    \A i \in DOMAIN items :
        items[i].tension_main > 0 /\ items[i].tension_cross > 0

\* C16: the done_time shown by get_item_by_token for a stored item is its
\* completed_at when that is not null and its promised_done_time otherwise,
\* as YYYY-MM-DD HH:MM; so an item whose status is not DONE is shown with
\* its promised_done_time.
C16_DoneTimeShown ==
    \A i \in DOMAIN items :
        LET shown == get_item_by_token(items[i].token)
        IN  /\ shown # None
            /\ shown[1].done_time =
                  IF items[i].completed_at # None
                  THEN Formatted[items[i].completed_at[1]]
                  ELSE Formatted[items[i].promised_done_time]
            /\ items[i].status # "DONE" =>
                  shown[1].done_time = Formatted[items[i].promised_done_time]

PublicFields ==
    {"name", "string_type", "tension_main", "tension_cross", "done_time"}

\* what the customer page may depend on
C17_Visible(i) ==
    [ name          |-> customers[orders[items[i].order_id].customer_id].name,
      string_type   |-> items[i].string_type,
      tension_main  |-> items[i].tension_main,
      tension_cross |-> items[i].tension_cross,
      completed_at  |-> items[i].completed_at,
      promised      |-> items[i].promised_done_time ]

\* C17: the dict of get_item_by_token and the body of GET /public/{token}
\* have exactly the fields name, string_type, tension_main, tension_cross
\* and done_time (no id, status, token or phone), and two items that
\* differ only in hidden fields are shown alike.
C17_ProjectionHidesRest ==
    /\ \A tok \in TokenInputs :
          get_item_by_token(tok) # None =>
              DOMAIN get_item_by_token(tok)[1] = PublicFields
    /\ (last.op = "public_info" /\ last.res = "200") =>
          DOMAIN last.ret[1] = PublicFields
    /\ \A i, j \in DOMAIN items :
          C17_Visible(i) = C17_Visible(j) =>
              get_item_by_token(items[i].token) =
                  get_item_by_token(items[j].token)

\* the page was served while two items alike to the customer differ in status
C17_Witness ==
    /\ last.op = "public_info" /\ last.res = "200"
    /\ \E i, j \in DOMAIN items :
          /\ i # j
          /\ C17_Visible(i) = C17_Visible(j)
          /\ items[i].status # items[j].status
          /\ last.ret = get_item_by_token(items[i].token)

\* trim and fold to upper case, tabulated over the tokens callers send
C18_Normalized == [x \in TokenInputs |-> Upper(Strip(x))]

\* C18: get_item_by_token and the staff toggle's lookup find the item with
\* token T when given T with surrounding whitespace or in another letter
\* case, and find nothing for a text that normalizes to no stored token.
C18_LookupNormalized ==
    \A tok \in TokenInputs :
        LET hits == ItemsByToken(items, C18_Normalized[tok])
        IN  /\ hits # {} =>
                  /\ get_item_by_token(tok) # None
                  /\ ItemsByToken(items, StrippedToken[tok]) = hits
            /\ hits = {} =>
                  /\ get_item_by_token(tok) = None
                  /\ ItemsByToken(items, StrippedToken[tok]) = {}

\* C19: update_promised_done_time(item_id, t) on a stored item sets its
\* promised_done_time to t and changes no other field of it, no other item
\* and no other table; on a missing item_id it returns nothing and changes
\* nothing.
C19_PromisedTimeOnly ==
    [][ \A id \in ItemIds, t \in DateTimes :
            ( /\ last'.op = "update_promised_done_time"
              /\ update_promised_done_time(id, t) ) =>
                /\ UNCHANGED <<customers, orders>>
                /\ IF id \in DOMAIN items
                   THEN /\ last'.res = "item"
                        /\ items' = [items EXCEPT ![id].promised_done_time = t]
                   ELSE /\ last'.res = "None"
                        /\ items' = items
      ]_vars

\* the promised time of a finished item was moved away from its completion
C19_Witness ==
    /\ last.op = "update_promised_done_time" /\ last.res = "item"
    /\ items[last.id].status = "DONE"
    /\ items[last.id].completed_at # Some(items[last.id].promised_done_time)
    /\ Cardinality(DOMAIN items) = 2

RECURSIVE C20_Sum(_, _)
C20_Sum(f, keys) ==
    IF keys = {} THEN 0
    ELSE LET k == CHOOSE x \in keys : TRUE
         IN  f[k] + C20_Sum(f, keys \ {k})

C21_BlankSearchEmpty ==
    \A q \in KeywordInputs :
        (\A k \in 1..Len(q) : q[k] \in Whitespace) => admin_search(q) = <<>>

\* the search ran on a store where a search for "ann" finds two items
C21_Witness ==
    /\ last.op = "api_admin_search"
    /\ Len(admin_search(<<" ","a","n","n"," ">>)) = 2

\* text contains kw, letter case aside
C22_Contains(text, kw) ==
    \E k \in 0..(Len(text) - Len(kw)) :
        Upper(SubSeq(text, k + 1, k + Len(kw))) = Upper(kw)

C22_Literal ==
    [q \in KeywordInputs |->
        [text \in SearchTexts |-> C22_Contains(text, StrippedKeyword[q])]]

\* C22: for a keyword that is not blank, admin_search returns the items
\* (fewer than 200 here) that have the trimmed keyword as a literal
\* substring, letter case aside, of their token or of their customer's
\* name or phone, and no other item.
C22_SearchLiteralSubstring ==
    \A q \in KeywordInputs :
        StrippedKeyword[q] # <<>> =>
            LET rows == admin_search(q)
            IN  { rows[k].id : k \in 1..Len(rows) } =
                { i \in DOMAIN items :
                    LET c == customers[orders[items[i].order_id].customer_id]
                    IN  \/ C22_Literal[q][items[i].token]
                        \/ C22_Literal[q][c.name]
                        \/ C22_Literal[q][c.phone] }

\* minutes on a scale that orders the datetimes
C23_Minutes(dt) ==
    (((dt.year * 12 + dt.month) * 31 + dt.day) * 24 + dt.hour) * 60 + dt.minute

\* C23: admin_list_items_by_date(day) has one row for each item whose
\* promised_done_time falls on day and no other row, and the rows are in
\* ascending order of promised_done_time.
C23_ListByDayAscending ==
    \A day \in Days :
        LET rows == admin_list_items_by_date(day)
        IN  /\ { rows[k].id : k \in 1..Len(rows) } =
                  { i \in DOMAIN items : date(items[i].promised_done_time) = day }
            /\ \A k, l \in 1..Len(rows) : k # l => rows[k].id # rows[l].id
            /\ \A k, l \in 1..Len(rows) :
                  k < l => C23_Minutes(items[rows[k].id].promised_done_time)
                             <= C23_Minutes(items[rows[l].id].promised_done_time)

\* the counts the month rollup is to return: for each day of the month
\* with at least one RECEIVED or WORKING item, the number of such items
C24_Unfinished(year, month) ==
    LET open == { i \in DOMAIN items :
                    /\ items[i].promised_done_time.year = year
                    /\ items[i].promised_done_time.month = month
                    /\ items[i].status \in {"RECEIVED", "WORKING"} }
    IN  [d \in { date(items[i].promised_done_time) : i \in open } |->
            Cardinality({ i \in open : date(items[i].promised_done_time) = d })]

\* C24: the system offers a month_unfinished(year_month) operation that
\* returns, per day of the month, the number of RECEIVED and WORKING items
\* promised for that day: whenever a month has such counts, one of the
\* operations of the storage layer or one of the routes is that operation.
C24_MonthUnfinishedOffered ==
    \A day \in Days :
        DOMAIN C24_Unfinished(day.year, day.month) # {} =>
            \E op \in CrudOperations \cup RouteHandlers :
                op \in { "month_unfinished", "month_unfinished_counts",
                         "admin_month_unfinished", "api_admin_month_unfinished" }

\* C25: a request that does not present the right shared secret changes
\* nothing in the store: the staff toggle with a wrong key, the scan route
\* (which takes no key) and the admin set-status and set-time routes
\* (which take no key).
C25_KeyRequired ==
    [][ /\ \A tok \in TokenInputs, k \in KeyInputs :
              (StrippedKey[k] # STAFF_KEY /\ api_staff_toggle(tok, k)) =>
                  UNCHANGED <<customers, orders, items>>
        /\ \A tok \in TokenInputs :
              staff_qr_toggle(tok) => UNCHANGED <<customers, orders, items>>
        /\ \A id \in ItemIds, st \in StatusInputs :
              update_item_status(id, st) =>
                  UNCHANGED <<customers, orders, items>>
        /\ \A id \in ItemIds, x \in TimeTextInputs :
              api_admin_set_time(id, x) =>
                  UNCHANGED <<customers, orders, items>>
      ]_vars

\* C26: the admin summary, the admin items list and the admin set-time
\* route answer a date or time text that does not parse, or is missing,
\* with a 4xx status and leave the store unchanged.
C26_MalformedRejected ==
    [][ /\ \A d \in DateInputs :
              ( /\ ParsedDate[d] = None
                /\ api_admin_summary(d) \/ api_admin_items(d) ) =>
                  /\ response_status(last'.res) \in 400..499
                  /\ UNCHANGED <<customers, orders, items>>
        /\ \A id \in ItemIds, x \in TimeTextInputs :
              (ParsedDateTime[x] = None /\ api_admin_set_time(id, x)) =>
                  /\ response_status(last'.res) \in 400..499
                  /\ UNCHANGED <<customers, orders, items>>
      ]_vars

\* C27: under every interleaving of staff toggles and admin set-status
\* calls on an item, each commit leaves the item with the status and the
\* completed_at that the committing operation itself assigned, so that
\* the committed item is DONE exactly when its completed_at is set.
C27_StatusAndStampTogether ==
    [][ \A s \in Sessions :
            (sess[s].pc = "loaded" /\ sess'[s].pc = "idle") =>
                LET id == sess[s].args[1].id
                IN  /\ \E t \in utcnow :
                          /\ items'[id].status = assigned(s, t).status
                          /\ items'[id].completed_at =
                                 assigned(s, t).completed_at
                    /\ (items'[id].status = "DONE") <=>
                           (items'[id].completed_at # None)
      ]_vars

\* C28: each staff toggle that commits moves the stored item one step
\* along the cycle from the status stored just before, also when another
\* toggle of the item overlaps it; so two toggles move it two steps.
C28_NoToggleLost ==
    [][ \A s \in Sessions :
            ( /\ sess[s].pc = "loaded" /\ sess[s].op = Toggle
              /\ sess'[s].pc = "idle" ) =>
                LET id == sess[s].args[1].id
                IN  items'[id].status = _cycle_status(items[id].status)
      ]_vars

\* C29: in every committed state each order has at least one item, and
\* the committed tables change only in the one step in which a creating
\* call commits, which stores its order together with its item (and, for
\* admin_create_one, its customer).
C29_OrderHasItem ==
    [][ /\ \A o \in DOMAIN orders' :
              \E i \in DOMAIN items' : items'[i].order_id = o
        /\ <<customers, orders, items>>' # <<customers, orders, items>> =>
              \E s \in Sessions :
                  /\ sess[s].pc = "insert" /\ sess'[s].pc = "idle"
                  /\ sess'[s].res = "OK"
                  /\ DOMAIN orders' = DOMAIN orders \cup {sess[s].ord[1].id}
                  /\ Cardinality(DOMAIN items') = Cardinality(DOMAIN items) + 1
      ]_vars

\* a session holds a flushed order that the committed store does not show,
\* while another call's order and item are committed
C29_Witness ==
    /\ orders # <<>>
    /\ \E s \in Sessions :
          /\ sess[s].pc = "insert" /\ sess[s].op = "create_order"
          /\ sess[s].ord[1].id \notin DOMAIN orders

\* the committed tables after a status-mutating call differ from those
\* before it at most in status and completed_at of the items in targets
C30_Frame(targets) ==
    /\ customers' = customers
    /\ orders' = orders
    /\ DOMAIN items' = DOMAIN items
    /\ \A i \in DOMAIN items :
          IF i \in targets
          THEN [items'[i] EXCEPT !.status = items[i].status,
                                 !.completed_at = items[i].completed_at]
                   = items[i]
          ELSE items'[i] = items[i]

\* C30: a staff toggle by token and an admin set-status by id change
\* nothing but status and completed_at of the one targeted item; all its
\* other fields and every other item, order and customer are unchanged.
\* A staff toggle whose token matches no item returns not-found and
\* changes nothing.
C30_StatusOpsFrame ==
    [][ /\ \A tok \in TokenInputs :
              LET found == ItemsByToken(items, StrippedToken[tok])
              IN  /\ (last'.op = Toggle /\ staff_toggle_status_by_token(tok)) =>
                        /\ Cardinality(found) <= 1
                        /\ C30_Frame(found)
                        /\ found = {} =>
                              /\ response_status(last'.res) = 404
                              /\ items' = items
                  /\ (last'.op = "staff_qr_toggle" /\ staff_qr_toggle(tok)) =>
                        /\ found = {}
                        /\ response_status(last'.res) = 404
                        /\ C30_Frame({})
        /\ \A id \in ItemIds, st \in StatusInputs :
              (last'.op = SetStatus /\ update_item_status(id, st)) =>
                  C30_Frame({id} \cap DOMAIN items)
      ]_vars

\* a scan has just advanced one of two items and the other one is as it
\* was created
C30_Witness ==
    /\ last.op = Toggle /\ last.res = "item"
    /\ Cardinality(DOMAIN items) = 2
    /\ \E i \in DOMAIN items :
          /\ i # last.id
          /\ items[i].status = "RECEIVED"
          /\ items[last.id].status # "RECEIVED"

\* C31: update_item_status accepts a status text only when it is exactly
\* one of the four member names; any other text (other case, surrounding
\* whitespace, the prefix "ItemStatus.", a text that becomes a name only
\* once an embedded "ITEMSTATUS." is removed) is rejected as invalid and
\* changes nothing, and the status of every item is one of the four members.
C31_OnlyExactNamesAccepted ==
    [][ \A id \in ItemIds, st \in StatusInputs :
            (last'.op = SetStatus /\ update_item_status(id, st)) =>
                /\ (\A m \in ItemStatus : ItemStatusName[m] # st) =>
                       /\ last'.res # "item"
                       /\ items' = items
                /\ \A i \in DOMAIN items' : items'[i].status \in ItemStatus
      ]_vars

\* C33: a staff toggle never changes or clears a completed_at that is set:
\* an item that a scan brings back into DONE keeps the completed_at of its
\* first entry. The only step that changes a completed_at that is set is
\* update_item_status to a status other than DONE, which clears it.
C33_ScansKeepCompletedAt ==
    [][ /\ (last'.op = Toggle /\ last'.res = "item") =>
              LET before == items[last'.id]
                  after  == items'[last'.id]
              IN  before.completed_at # None =>
                      /\ after.completed_at = before.completed_at
                      /\ ~last'.stamped
        /\ \A i \in DOMAIN items :
              ( /\ items[i].completed_at # None
                /\ items'[i].completed_at # items[i].completed_at ) =>
                  /\ last'.op = SetStatus /\ last'.id = i
                  /\ last'.st \in ItemStatus \ {"DONE"}
                  /\ items'[i].completed_at = None
      ]_vars

\* a scan has brought an item back into DONE without writing completed_at,
\* while the other item was completed at another time
C33_Witness ==
    /\ last.op = Toggle /\ last.res = "item" /\ ~last.stamped
    /\ items[last.id].status = "DONE"
    /\ items[last.id].completed_at # None
    /\ \E j \in DOMAIN items :
          /\ items[j].completed_at # None
          /\ items[j].completed_at # items[last.id].completed_at

\* C32: the by_hour of the summary of a day has as keys the two-digit
\* hours "00".."23" at which items are promised on that day and no other
\* key, maps each to the number of those items, and its values add up to
\* total.
C32_ByHour ==
    [][ \A d \in DateInputs :
            ( /\ ParsedDate[d] # None
              /\ last'.op = "api_admin_summary"
              /\ api_admin_summary(d) ) =>
                /\ last'.res = "200"
                /\ LET summary == last'.ret[1]
                       rows == OnDay(ParsedDate[d][1])
                   IN  /\ DOMAIN summary.by_hour =
                              { Dec2(items[i].promised_done_time.hour) : i \in rows }
                       /\ DOMAIN summary.by_hour \subseteq
                              { Dec2(h) : h \in 0..23 }
                       /\ \A h \in 0..23 :
                              Dec2(h) \in DOMAIN summary.by_hour =>
                                  summary.by_hour[Dec2(h)] = Cardinality(
                                      { i \in rows :
                                          items[i].promised_done_time.hour = h })
                       /\ C20_Sum(summary.by_hour, DOMAIN summary.by_hour)
                              = summary.total
      ]_vars

====
